---- MODULE Spec2Model ----
(***************************************************************************)
(* A model of index.py: the EpistemicGuardian session.                     *)
(*                                                                         *)
(* Number representation.  Python floats are modelled in fixed point:      *)
(*   - times (latency, total_time) are whole milliseconds;                 *)
(*   - rates (1/latency, velocity) are whole units per second; the clock   *)
(*     readings are drawn from Times, whose nonzero members divide 1000,   *)
(*     so 1/latency and keystrokes/total_time are exact;                   *)
(*   - z-scores are hundredths, raw_bci, bci, p_obj and delta_c are        *)
(*     thousandths.                                                        *)
(* The two float operations that can raise are modelled as they behave:    *)
(* a division by zero raises ZeroDivisionError and math.exp of an argument *)
(* above ln(max double) = 709.78... raises OverflowError.                  *)
(***************************************************************************)
EXTENDS Integers, Sequences, FiniteSets

VARIABLES
    mode,             \* the phase run_phase is in, then "report" / "done"
    i,                \* 1-based index of the current question in the phase
    pc,               \* position inside the current loop iteration
    error,            \* the exception that ended the script, or "none"
    personal_stats,   \* self.personal_stats
    results_control,  \* self.results_control
    results_exp,      \* self.results_exp
    nudges_triggered, \* self.nudges_triggered
    corrections,      \* self.corrections
    frame,            \* locals of the running tracked_input call
    ret,              \* value returned by the last tracked_input call
    loc,              \* locals of run_phase for the current item
    report            \* what print_final_report printed

objVars == <<personal_stats, results_control, results_exp, nudges_triggered, corrections>>
vars == <<mode, i, pc, error, personal_stats, results_control, results_exp,
          nudges_triggered, corrections, frame, ret, loc, report>>

-----------------------------------------------------------------------------
(* Bounds of the model *)

\* printable keys accepted by one tracked_input call
MaxKeystrokes == 1
\* how many of the ten control questions a session presents
NumControl == 1
\* how many of the ten experimental questions a session presents
NumExperimental == 1

\* readings of time.time() - start_time, in ms: a key that is already waiting
\* is read at 0, one that arrives within the first millisecond at 1
Times == {0, 1}
\* printable keys the participant can press
Keys == {"b"}

-----------------------------------------------------------------------------
(* Configuration of EpistemicGuardian.__init__ *)

\* weights, in tenths
w1 == 6
w2 == 2
w3 == 2
\* nudge_threshold, in thousandths
nudge_threshold == 350
\* is_trap gate 0.4, in thousandths
trap_gate == 400
\* len(history) below which calculate_z_score returns 0
min_history == 2

(* Question database: correct answer and p_obj (thousandths) *)
Q(c, p) == [correct |-> <<c>>, p_obj |-> p]

calibration_qs == << Q("B", 990), Q("A", 990) >>

control_qs ==
    << Q("B", 150), Q("B", 350), Q("B", 250), Q("B", 300), Q("C", 200),
       Q("C", 800), Q("B", 250), Q("A", 400), Q("D", 150), Q("B", 700) >>

experimental_qs ==
    << Q("B", 250), Q("B", 200), Q("B", 250), Q("B", 300), Q("B", 150),
       Q("B", 200), Q("C", 150), Q("C", 100), Q("B", 300), Q("B", 400) >>

Min(a, b) == IF a < b THEN a ELSE b

\* the questions run_phase iterates over in each phase
Questions(m) ==
    CASE m = "calibration"  -> calibration_qs
      [] m = "control"      -> SubSeq(control_qs, 1, Min(NumControl, Len(control_qs)))
      [] m = "experimental" -> SubSeq(experimental_qs, 1, Min(NumExperimental, Len(experimental_qs)))
      [] OTHER              -> << >>

-----------------------------------------------------------------------------
(* Arithmetic helpers *)

\* x / y rounded toward zero (x any sign, y > 0)
Quot(x, y) == IF x < 0 THEN -((-x) \div y) ELSE x \div y

RECURSIVE Sum(_)
Sum(s) == IF s = << >> THEN 0 ELSE Head(s) + Sum(Tail(s))

\* largest r in lo..hi with r*r <= x, by bisection
RECURSIVE SqrtSearch(_, _, _)
SqrtSearch(x, lo, hi) ==
    IF lo >= hi THEN lo
    ELSE LET mid == (lo + hi + 1) \div 2
         IN  IF mid * mid <= x THEN SqrtSearch(x, mid, hi)
                               ELSE SqrtSearch(x, lo, mid - 1)

\* floor(math.sqrt(x)) for 0 <= x < 2^31
ISqrt(x) == SqrtSearch(x, 0, 46340)

-----------------------------------------------------------------------------
(* str.strip().upper() on a list of characters *)

IsSpace(c) == c = " "

RECURSIVE LStrip(_)
LStrip(s) == IF s # << >> /\ IsSpace(Head(s)) THEN LStrip(Tail(s)) ELSE s

RECURSIVE RStrip(_)
RStrip(s) ==
    IF s # << >> /\ IsSpace(s[Len(s)]) THEN RStrip(SubSeq(s, 1, Len(s) - 1)) ELSE s

Strip(s) == RStrip(LStrip(s))

UpperChar(c) ==
    CASE c = "a" -> "A" [] c = "b" -> "B" [] c = "c" -> "C" [] c = "d" -> "D"
      [] OTHER -> c

Upper(s) == [k \in 1..Len(s) |-> UpperChar(s[k])]

-----------------------------------------------------------------------------
(* Signals *)

\* 1/lat if lat > 0 else 0   (lat in ms, result per second)
SpeedSignal(lat) == IF lat > 0 THEN 1000 \div lat ELSE 0

\* [1/l for l in latency]; evaluated only when no l is 0
InvLatHist(latency) == [k \in 1..Len(latency) |-> 1000 \div latency[k]]

\* 1/l raises ZeroDivisionError for some l of the history
InvLatRaises(latency) == \E k \in 1..Len(latency) : latency[k] = 0

\* keystrokes / total_time if total_time > 0 else 0   (keys per second)
Velocity(keystrokes, total_time) ==
    IF total_time > 0 THEN (keystrokes * 1000) \div total_time ELSE 0

(* calculate_z_score, in hundredths.  With n = len(history), S = sum(history)  *)
(* and Q = sum((n*x - S)^2): mean = S/n, var = Q/n^3, so                       *)
(*   std > 0.001  <=>  Q * 10^6 > n^3  <=>  Q > n^3 \div 10^6  (Q an integer)  *)
(*   (value - mean) / std = (n*value - S) * sqrt(n) / sqrt(Q)                  *)
(*   (value - mean) / 1   = (n*value - S) / n                                  *)
(* The square roots are taken to two decimals where the operand leaves room.   *)
Sqrt100(x) == IF x < 200000 THEN ISqrt(x * 10000) ELSE ISqrt(x) * 100

SumSqDev(history) ==
    LET n == Len(history)
        S == Sum(history)
    IN  Sum([k \in 1..n |-> (n * history[k] - S) * (n * history[k] - S)])

StdAboveFloor(history) ==
    LET n == Len(history)
    IN  SumSqDev(history) > (n * n * n) \div 1000000

calculate_z_score(value, history) ==
    IF Len(history) < min_history THEN 0
    ELSE LET n   == Len(history)
             num == n * value - Sum(history)
         IN  IF StdAboveFloor(history)
             THEN Quot(num * Sqrt100(n) * 100, Sqrt100(SumSqDev(history)))
             ELSE Quot(num * 100, n)

\* w1*z_lat + w2*z_vel - w3*z_rev, in thousandths
RawBci(z_lat, z_vel, z_rev) == (w1 * z_lat) + (w2 * z_vel) - (w3 * z_rev)

\* math.exp(-raw_bci) raises OverflowError: -raw_bci > 709.782...
ExpOverflows(raw_bci) == -raw_bci > 709782

\* 1/(1+exp(-x)) at x = 0, 1, ..., 8, in thousandths
LogisticKnots == <<500, 731, 881, 953, 982, 993, 998, 999, 1000>>

\* 1/(1+exp(-x)) for x >= 0 (thousandths in, thousandths out), interpolated
LogisticPos(x) ==
    IF x >= 8000 THEN 1000
    ELSE LET k == x \div 1000
             f == x % 1000
             a == LogisticKnots[k + 1]
             b == LogisticKnots[k + 2]
         IN  a + ((b - a) * f) \div 1000

\* bci = 1 / (1 + math.exp(-raw_bci))
Logistic(raw_bci) ==
    IF raw_bci >= 0 THEN LogisticPos(raw_bci) ELSE 1000 - LogisticPos(-raw_bci)

ZLat(lat, stats) == calculate_z_score(SpeedSignal(lat), InvLatHist(stats.latency))
ZVel(vel, stats) == calculate_z_score(vel, stats.velocity)
ZRev(rev, stats) == calculate_z_score(rev, stats.revisions)

\* raw_bci of a sample against the baseline (lines 75-80)
SampleRaw(lat, vel, rev, stats) ==
    RawBci(ZLat(lat, stats), ZVel(vel, stats), ZRev(rev, stats))

\* 1 if ans == q['correct'] else 0
Correctness(answer, q) == IF answer = q.correct THEN 1 ELSE 0

\* mutant: the mode test of line 87 dropped
Triggers_AnyMode(m, delta_c) == delta_c > nudge_threshold

\* mode == "experimental" and delta_c > self.nudge_threshold
Triggers(m, delta_c) == m = "experimental" /\ delta_c > nudge_threshold

-----------------------------------------------------------------------------
(* State *)

\* locals of tracked_input on entry (lines 40-44); now is time.time() - start_time,
\* first_key_time is << >> for None and <<t>> once set
FreshFrame ==
    [chars |-> << >>, keystrokes |-> 0, revisions |-> 0, now |-> 0,
     first_key_time |-> << >>]

NoRet == [answer |-> << >>, latency |-> 0, velocity |-> 0, revisions |-> 0]

\* a local that has not been assigned
Unbound == <<"unbound">>

\* locals of run_phase at the top of an iteration: each is assigned before it is read
FreshLoc ==
    [ans |-> Unbound, lat |-> 0, vel |-> 0, rev |-> 0, bci |-> 0, delta_c |-> 0,
     is_correct |-> 0, final_ans |-> Unbound]

Init ==
    /\ mode = "calibration"
    /\ i = 1
    /\ pc = "input"
    /\ error = "none"
    /\ personal_stats = [latency |-> << >>, velocity |-> << >>, revisions |-> << >>]
    /\ results_control = << >>
    /\ results_exp = << >>
    /\ nudges_triggered = 0
    /\ corrections = 0
    /\ frame = FreshFrame
    /\ ret = NoRet
    /\ loc = FreshLoc
    /\ report = << >>

InTrackedInput == pc \in {"input", "reinput"}

\* the question of the current iteration
q == Questions(mode)[i]

-----------------------------------------------------------------------------
(* tracked_input: one action per iteration of its loop *)

\* get_key() returns at instant t; line 47
KeyRead(f, t) ==
    [f EXCEPT !.now = t,
              !.first_key_time = IF f.first_key_time = << >> THEN <<t>> ELSE @]

\* lines 57-61
TypeChar(f, c) ==
    [f EXCEPT !.chars = Append(@, c), !.keystrokes = @ + 1]

\* mutant: revisions counted outside the len(chars) > 0 guard
Backspace_Unguarded(f) ==
    [f EXCEPT !.chars = IF Len(@) > 0 THEN SubSeq(@, 1, Len(@) - 1) ELSE @,
              !.revisions = @ + 1]

\* lines 51-56
Backspace(f) ==
    IF Len(f.chars) > 0
    THEN [f EXCEPT !.chars = SubSeq(@, 1, Len(@) - 1), !.revisions = @ + 1]
    ELSE f

\* lines 62-65, with total_time = t
Returned(f, t) ==
    LET total_time == t
        latency == IF f.first_key_time # << >> THEN f.first_key_time[1] ELSE total_time
    IN  [answer    |-> Upper(Strip(f.chars)),
         latency   |-> latency,
         velocity  |-> Velocity(f.keystrokes, total_time),
         revisions |-> f.revisions]

KeyPrintable ==
    /\ InTrackedInput
    /\ frame.keystrokes < MaxKeystrokes
    /\ \E c \in Keys, t \in Times :
          /\ t >= frame.now
          /\ frame' = TypeChar(KeyRead(frame, t), c)
    /\ UNCHANGED <<mode, i, pc, error, objVars, ret, loc, report>>

KeyBackspace ==
    /\ InTrackedInput
    /\ \E t \in Times :
          /\ t >= frame.now
          /\ frame' = Backspace(KeyRead(frame, t))
    /\ UNCHANGED <<mode, i, pc, error, objVars, ret, loc, report>>

KeyEnter ==
    /\ InTrackedInput
    /\ \E t \in Times :
          /\ t >= frame.now
          /\ ret' = Returned(KeyRead(frame, t), t)
    /\ frame' = FreshFrame
    /\ pc' = IF pc = "input" THEN "score" ELSE "reanswer"
    /\ UNCHANGED <<mode, i, error, objVars, loc, report>>

-----------------------------------------------------------------------------
(* run_phase: the body of one iteration *)

\* lines 73-83: the locals after scoring the returned sample
Scored(r, stats, question) ==
    LET bci == Logistic(SampleRaw(r.latency, r.velocity, r.revisions, stats))
    IN  [ans |-> r.answer, lat |-> r.latency, vel |-> r.velocity, rev |-> r.revisions,
         bci |-> bci, delta_c |-> bci - question.p_obj,
         is_correct |-> Correctness(r.answer, question), final_ans |-> Unbound]

\* the exception lines 75-81 raise for this sample and baseline, or "none"
ScoreError(r, stats) ==
    IF InvLatRaises(stats.latency) THEN "ZeroDivisionError"
    ELSE IF ExpOverflows(SampleRaw(r.latency, r.velocity, r.revisions, stats))
         THEN "OverflowError"
         ELSE "none"

Score ==
    /\ pc = "score"
    /\ LET e == ScoreError(ret, personal_stats)
       IN  IF e # "none"
           THEN /\ error' = e
                /\ pc' = "raised"
                /\ loc' = [loc EXCEPT !.ans = ret.answer, !.lat = ret.latency,
                                      !.vel = ret.velocity, !.rev = ret.revisions]
           ELSE /\ loc' = Scored(ret, personal_stats, q)
                /\ pc' = "decide"
                /\ error' = error
    /\ ret' = NoRet
    /\ UNCHANGED <<mode, i, objVars, frame, report>>

\* mutant: line 88 missing
Nudge_NotCounted ==
    /\ pc = "decide"
    /\ Triggers(mode, loc.delta_c)
    /\ frame' = FreshFrame
    /\ pc' = "reinput"
    /\ UNCHANGED <<mode, i, error, objVars, ret, loc, report>>

\* lines 87-92: the nudge, up to the call of tracked_input
Nudge ==
    /\ pc = "decide"
    /\ Triggers(mode, loc.delta_c)
    /\ nudges_triggered' = nudges_triggered + 1
    /\ frame' = FreshFrame
    /\ pc' = "reinput"
    /\ UNCHANGED <<mode, i, error, personal_stats, results_control, results_exp,
                   corrections, ret, loc, report>>

\* line 87 false
NoNudge ==
    /\ pc = "decide"
    /\ ~Triggers(mode, loc.delta_c)
    /\ pc' = "record"
    /\ UNCHANGED <<mode, i, error, objVars, frame, ret, loc, report>>

\* mutant: line 93 without the test of the original answer
Corrects_AnyOriginal(final_ans, is_correct, question) == final_ans = question.correct

\* line 93
Corrects(final_ans, is_correct, question) ==
    final_ans = question.correct /\ is_correct = 0

\* mutant: line 92 keeps the re-answer's signals (final_ans, lat, vel, rev = ...)
ReAnswered_Resampled(l, r, question) ==
    [l EXCEPT !.final_ans = r.answer,
              !.lat = r.latency, !.vel = r.velocity, !.rev = r.revisions,
              !.is_correct = Correctness(r.answer, question)]

\* lines 92-94
ReAnswered(l, r, question) ==
    [l EXCEPT !.final_ans = r.answer,
              !.is_correct = Correctness(r.answer, question)]

ReAnswer ==
    /\ pc = "reanswer"
    /\ corrections' = IF Corrects(ret.answer, loc.is_correct, q)
                      THEN corrections + 1 ELSE corrections
    /\ loc' = ReAnswered(loc, ret, q)
    /\ ret' = NoRet
    /\ pc' = "record"
    /\ UNCHANGED <<mode, i, error, personal_stats, results_control, results_exp,
                   nudges_triggered, frame, report>>

\* line 96
Entry(l, question) ==
    [bci |-> l.bci, outcome |-> l.is_correct, is_trap |-> question.p_obj < trap_gate]

\* mutant: every item outside the experimental phase recorded as a control record
RecordedControl_Calibration(m, res, e) ==
    IF m # "experimental" THEN Append(res, e) ELSE res

\* lines 97-98
RecordedControl(m, res, e) == IF m = "control" THEN Append(res, e) ELSE res
RecordedExp(m, res, e) == IF m = "experimental" THEN Append(res, e) ELSE res

\* mutant: lines 100-102 under "if mode != 'experimental'"
Fed_BaselinePhasesOnly(stats, m, l) ==
    IF m = "experimental" THEN stats
    ELSE [latency   |-> Append(stats.latency, l.lat),
          velocity  |-> Append(stats.velocity, l.vel),
          revisions |-> Append(stats.revisions, l.rev)]

\* lines 100-102: appended whatever the mode m
Fed(stats, m, l) ==
    [latency   |-> Append(stats.latency, l.lat),
     velocity  |-> Append(stats.velocity, l.vel),
     revisions |-> Append(stats.revisions, l.rev)]

\* the phase after m (lines 150-153)
NextMode(m) ==
    CASE m = "calibration" -> "control"
      [] m = "control"     -> "experimental"
      [] OTHER             -> "report"

\* lines 96-102, then the loop goes to the next question, phase or the report
Record ==
    /\ pc = "record"
    /\ results_control' = RecordedControl(mode, results_control, Entry(loc, q))
    /\ results_exp' = RecordedExp(mode, results_exp, Entry(loc, q))
    /\ personal_stats' = Fed(personal_stats, mode, loc)
    /\ loc' = FreshLoc
    /\ frame' = FreshFrame
    /\ IF i < Len(Questions(mode))
       THEN /\ i' = i + 1
            /\ mode' = mode
            /\ pc' = "input"
       ELSE /\ i' = 1
            /\ mode' = NextMode(mode)
            /\ pc' = IF NextMode(mode) = "report" THEN "report" ELSE "input"
    /\ UNCHANGED <<error, nudges_triggered, corrections, ret, report>>

-----------------------------------------------------------------------------
(* print_final_report *)

\* traps = [r['outcome'] for r in res_list if r['is_trap']]
RECURSIVE Traps(_)
Traps(res) ==
    IF res = << >> THEN << >>
    ELSE IF Head(res).is_trap THEN <<Head(res).outcome>> \o Traps(Tail(res))
                              ELSE Traps(Tail(res))

\* get_acc, in percent
get_acc(res_list) ==
    LET traps == Traps(res_list)
    IN  IF traps # << >> THEN (Sum(traps) * 100) \div Len(traps) ELSE 0

\* brier, in millionths
brier(res_list) ==
    IF res_list # << >>
    THEN Sum([k \in 1..Len(res_list) |->
                (res_list[k].bci - 1000 * res_list[k].outcome)
                  * (res_list[k].bci - 1000 * res_list[k].outcome)]) \div Len(res_list)
    ELSE 0

\* line 114, in hundredths
Eta(c, n) == IF n > 0 THEN (c * 100) \div n ELSE 0

PrintFinalReport ==
    /\ pc = "report"
    /\ report' = << [brier_control |-> brier(results_control),
                     brier_exp     |-> brier(results_exp),
                     acc_control   |-> get_acc(results_control),
                     acc_exp       |-> get_acc(results_exp),
                     eta           |-> Eta(corrections, nudges_triggered),
                     nudges        |-> nudges_triggered,
                     prevented     |-> corrections] >>
    /\ pc' = "done"
    /\ mode' = "done"
    /\ UNCHANGED <<i, error, objVars, frame, ret, loc>>

-----------------------------------------------------------------------------

Next ==
    \/ KeyPrintable
    \/ KeyBackspace
    \/ KeyEnter
    \/ Score
    \/ Nudge
    \/ NoNudge
    \/ ReAnswer
    \/ Record
    \/ PrintFinalReport

Spec == Init /\ [][Next]_vars

-----------------------------------------------------------------------------
(* Positions in the session, read off mode, i and pc *)

Phases == <<"calibration", "control", "experimental">>

PhaseIndex(m) ==
    CASE m = "calibration" -> 1 [] m = "control" -> 2 [] m = "experimental" -> 3
      [] OTHER -> 4

\* iterations of phase m that ran to the end of the loop body
Completed(m) ==
    IF PhaseIndex(mode) > PhaseIndex(m) THEN Len(Questions(m))
    ELSE IF mode = m THEN i - 1 ELSE 0

\* items of phase m whose question has been presented
Started(m) ==
    IF PhaseIndex(mode) > PhaseIndex(m) THEN Len(Questions(m))
    ELSE IF mode = m THEN i ELSE 0

\* the original answer of the current item has been submitted
CurrentAnswered == pc \in {"score", "decide", "reinput", "reanswer", "record", "raised"}

\* items answered so far in the session
Answered ==
    Completed("calibration") + Completed("control") + Completed("experimental")
      + (IF CurrentAnswered THEN 1 ELSE 0)

InPhase == mode \in {"calibration", "control", "experimental"}

\* the current item went through the intervention
Intervened == loc.final_ans # Unbound

Last(s) == s[Len(s)]

-----------------------------------------------------------------------------
(* Claims *)

\* what a step of the session may do under C1
C1_Step ==
    LET trigger == mode = "experimental" /\ loc.bci - q.p_obj > nudge_threshold
    IN  /\ (nudges_triggered' # nudges_triggered \/ (pc # "reinput" /\ pc' = "reinput"))
             => /\ pc = "decide"
                /\ trigger
                /\ nudges_triggered' = nudges_triggered + 1
                /\ pc' = "reinput"
        /\ (pc = "decide" /\ trigger) => pc' = "reinput"
        /\ (pc = "decide" /\ ~trigger)
             => /\ pc' = "record"
                /\ ~Intervened'
                /\ loc'.is_correct = Correctness(loc.ans, q)
                /\ UNCHANGED <<nudges_triggered, corrections>>
        /\ (pc = "record" /\ ~Intervened)
             => /\ ~trigger
                /\ Entry(loc, q).outcome = Correctness(loc.ans, q)
                /\ UNCHANGED <<nudges_triggered, corrections>>
        /\ (corrections' # corrections) => (InPhase /\ Triggers(mode, loc.delta_c))

\* C1: an intervention (nudges_triggered incremented, re-answer capture entered)
\* happens for an item if and only if mode is "experimental" and
\* bci - p_obj > nudge_threshold; otherwise no re-answer is captured, nudges_triggered
\* and corrections keep their values up to the recording of the item, and the
\* recorded outcome is the correctness of the original answer.
C1_InterventionIffTrigger == [][C1_Step]_vars

\* C1 witness: a control item whose delta_c exceeds the threshold is recorded
\* without an intervention
C1_Witness ==
    /\ mode = "control"
    /\ pc = "record"
    /\ loc.bci - q.p_obj > nudge_threshold
    /\ ~Intervened

\* what a step of the session may do under C2
C2_Step ==
    /\ pc = "reanswer"
         => /\ loc'.is_correct = Correctness(ret.answer, q)
            /\ loc'.final_ans = ret.answer
            /\ corrections' = corrections
                 + (IF Correctness(ret.answer, q) = 1 /\ Correctness(loc.ans, q) = 0
                    THEN 1 ELSE 0)
    /\ (pc = "record" /\ Intervened)
         => /\ mode = "experimental"
            /\ Len(results_exp') = Len(results_exp) + 1
            /\ Last(results_exp').outcome = Correctness(loc.final_ans, q)
            /\ corrections' = corrections

\* C2: when an intervention occurs the recorded outcome is the correctness of the
\* re-answer alone, and corrections grows by exactly 1 when the re-answer is correct
\* and the original answer was not, and is unchanged otherwise.
C2_ReAnswerSupersedes == [][C2_Step]_vars

\* C2 witness: a wrong original followed by a correct re-answer, counted once
C2_Witness ==
    /\ pc = "record"
    /\ Intervened
    /\ Correctness(loc.ans, q) = 0
    /\ loc.is_correct = 1
    /\ corrections = 1

\* C3: 0 <= corrections <= nudges_triggered <= experimental items started, and the
\* reported efficiency is corrections / nudges_triggered within [0,1] when
\* nudges_triggered > 0 and 0 when nudges_triggered = 0.
C3_CountersOrdered ==
    /\ 0 <= corrections
    /\ corrections <= nudges_triggered
    /\ nudges_triggered <= Started("experimental")
    /\ report # << >>
         => /\ report[1].eta >= 0
            /\ report[1].eta <= 100
            /\ nudges_triggered = 0 => report[1].eta = 0
            /\ nudges_triggered > 0
                 => report[1].eta = (corrections * 100) \div nudges_triggered

\* C3 witness: a report after a nudge that prevented an error
C3_Witness ==
    /\ report # << >>
    /\ nudges_triggered > 0
    /\ corrections > 0

\* C4: no numeric edge case is fatal: scoring never raises, whatever latencies,
\* total times and baselines the session has seen.
C4_NothingFatal == error = "none" /\ pc # "raised"

\* C5 as stated: processing an item in the experimental phase leaves the three
\* baseline sequences unchanged.
C5_ExperimentalLeavesBaseline ==
    [][mode = "experimental" => personal_stats' = personal_stats]_vars

\* what a step of the session may do under C5
C5_Step ==
    /\ pc = "record"
         => /\ InPhase
            /\ personal_stats'.latency = Append(personal_stats.latency, loc.lat)
            /\ personal_stats'.velocity = Append(personal_stats.velocity, loc.vel)
            /\ personal_stats'.revisions = Append(personal_stats.revisions, loc.rev)
    /\ pc # "record" => personal_stats' = personal_stats

\* C5 amended: the baseline is fed by every phase: each iteration that reaches the
\* end of the loop body, in the experimental phase as in the others, appends the
\* latency, velocity and revision count of the item's original sample, and no other
\* step changes the baseline.
C5_EveryPhaseFeedsBaseline == [][C5_Step]_vars

\* C5 witness: the baseline holds a value of an experimental item
C5_Witness ==
    /\ Completed("experimental") > 0
    /\ Len(personal_stats.latency)
         > Len(Questions("calibration")) + Len(Questions("control"))

\* C6 as stated: between items, len(results_control) + len(results_exp) is the
\* number of items answered.
C6_OneRecordPerItem ==
    pc \in {"input", "report", "done"}
      => Len(results_control) + Len(results_exp) = Answered

\* what a step of the session may do under C6
C6_Step ==
    /\ Len(results_control) = Completed("control")
    /\ Len(results_exp) = Completed("experimental")
    /\ (pc = "record" /\ mode = "calibration")
         => UNCHANGED <<results_control, results_exp>>
    /\ (pc = "record" /\ mode = "control")
         => /\ results_control' = Append(results_control, Entry(loc, q))
            /\ results_exp' = results_exp
    /\ (pc = "record" /\ mode = "experimental")
         => /\ results_exp' = Append(results_exp, Entry(loc, q))
            /\ results_control' = results_control
    /\ pc # "record" => UNCHANGED <<results_control, results_exp>>

\* C6 amended: calibration items produce no Outcome Record; an iteration of the
\* control or experimental phase that reaches line 96 appends exactly one record,
\* built after any intervention, to the sequence of its phase; records are never
\* modified or removed; so the two sequences hold one record per completed control
\* and experimental iteration.
C6_OneRecordPerArmItem == [][C6_Step]_vars

\* C6 witness: a finished session whose records are those of the control and
\* experimental items only
C6_Witness ==
    /\ pc = "done"
    /\ Len(results_control) = Len(Questions("control"))
    /\ Len(results_exp) = Len(Questions("experimental"))
    /\ Len(results_control) + Len(results_exp) < Answered

\* C7: an item answered while the baseline holds fewer than min_history
\* observations is scored with BCI = 0.5 exactly; in particular the first two items
\* of a session.
C7_ShortBaselineScoresHalf ==
    (Len(personal_stats.latency) < min_history /\ pc \in {"decide", "raised"})
      => (pc = "decide" /\ loc.bci = 500)

\* C8: for every sample and every baseline the logistic returns a BCI in [0,1]:
\* it never fails on an extreme raw score.
C8_BciInUnitInterval ==
    /\ error # "OverflowError"
    /\ pc \in {"decide", "reinput", "reanswer", "record"}
         => (loc.bci >= 0 /\ loc.bci <= 1000)

\* the counters of a tracked_input frame agree with its buffer
C9_FrameOk(f) ==
    /\ f.revisions <= f.keystrokes
    /\ Len(f.chars) = f.keystrokes - f.revisions

\* what a step of the session may do under C9
C9_Step ==
    /\ InTrackedInput => C9_FrameOk(frame)
    /\ InTrackedInput' => C9_FrameOk(frame')
    /\ (InTrackedInput /\ pc' = pc /\ frame.chars = << >>
          /\ frame'.keystrokes = frame.keystrokes)
         => /\ frame'.chars = << >>
            /\ frame'.revisions = frame.revisions
    /\ (InTrackedInput /\ pc' # pc)
         => /\ ret'.revisions = frame.revisions
            /\ ret'.revisions <= frame.keystrokes

\* C9: at every step of tracked_input revisions <= keystrokes and
\* len(chars) = keystrokes - revisions; a backspace on an empty buffer changes
\* neither the buffer nor a counter; the returned revision count is that of the
\* loop, so it is at most the keystroke count.
C9_RevisionsWithinKeystrokes == [][C9_Step]_vars

\* C9 witness: the first key read was a backspace, pressed on the empty buffer
C9_Witness ==
    /\ InTrackedInput
    /\ frame.first_key_time # << >>
    /\ frame.chars = << >>
    /\ frame.keystrokes = 0
    /\ frame.revisions = 0

\* what a step of the session may do under C10
C10_Step ==
    /\ Len(personal_stats.latency) = Len(personal_stats.velocity)
    /\ Len(personal_stats.velocity) = Len(personal_stats.revisions)
    /\ Len(personal_stats.latency)
         = Completed("calibration") + Completed("control") + Completed("experimental")
    /\ pc = "decide"
         => loc.bci = Logistic(SampleRaw(loc.lat, loc.vel, loc.rev, personal_stats))
    /\ pc \in {"decide", "reinput", "reanswer"}
         => /\ loc'.bci = loc.bci
            /\ loc'.lat = loc.lat
            /\ loc'.vel = loc.vel
            /\ loc'.rev = loc.rev
            /\ loc'.ans = loc.ans
            /\ personal_stats' = personal_stats
            /\ UNCHANGED <<results_control, results_exp>>
    /\ pc = "record"
         => /\ Entry(loc, q).bci = loc.bci
            /\ Len(personal_stats'.latency) = Len(personal_stats.latency) + 1
            /\ Last(personal_stats'.latency) = loc.lat
            /\ Last(personal_stats'.velocity) = loc.vel
            /\ Last(personal_stats'.revisions) = loc.rev
            /\ Intervened => Last(results_exp').bci = loc.bci

\* C10: an intervention changes only the outcome and the counters: the re-answer
\* leaves bci, lat, vel and rev of the original attempt in place, the record stores
\* that bci, the baseline receives exactly one value per completed item, taken from
\* the original attempt, and the three sequences have equal length.
C10_InterventionKeepsOriginalSample == [][C10_Step]_vars

\* C10 witness: a re-answer whose sample differs from the original's is recorded
\* next to the original's signals
C10_Witness ==
    /\ pc = "record"
    /\ Intervened
    /\ loc.final_ans # loc.ans
    /\ loc.rev = 1

====
